---- MODULE Spec2Model ----
(***************************************************************************)
(* Model of the simulation engine of src/app.py: the Streamlit script that *)
(* reads the widgets, runs the 100-tick loop (latency, RAM, crash logic,   *)
(* rendering, console log) and keeps log_history and system_status in the  *)
(* session state.                                                          *)
(*                                                                         *)
(* Fixed point: memory is in units of 1/MB megabytes (0.00014 MB = 14),    *)
(* latency in nanoseconds (4.5 us = 4500), the load factor in percent.     *)
(* A console line is modelled by the two words of the configuration it     *)
(* prints; its clock time, its random action label and its latency text    *)
(* are written once and never read back by the code, and are left out.     *)
(***************************************************************************)
EXTENDS Integers, Sequences, FiniteSets, TLC

\* ---------------------------------------------------------------- bounds
MaxInputs == 3
MaxAppends == 9

\* ------------------------------------------------------- program constants
NumTicks == 100
LogCapacity == 8
CrashThresholdMB == 450
HighLatencyMs == 10
MB == 100000
US == 1000

PiZero == "Raspberry Pi Zero W (512MB)"
Gateway == "Generic Gateway (4GB)"
Cloud == "Cloud Instance (16GB)"
HwProfiles == {PiZero, Gateway, Cloud}

Normalized == "Normalized (Standard)"
Denormalized == "Denormalized (TinyOneM2M)"
DbStrategies == {Normalized, Denormalized}

Managed == "Python/Java (OpenMTC)"
Native == "C-Native (TinyOneM2M)"
RuntimeTypes == {Managed, Native}

InitialLog == << "> SYSTEM INITIALIZED...", "> WAITING FOR INPUT..." >>

DefaultWidgets == [hw |-> PiZero, db |-> Denormalized, rt |-> Native, run |-> FALSE]

\* np.random.normal(1.0, 0.1), in percent: three standard deviations each way
LoadFactors == {70, 100, 130}

\* np.random.randint(low, high) draws from low .. high-1
RuntimeOverheads(rt) ==
    IF rt = Managed THEN {5000, 9995, 14999} ELSE {100, 1199}

\* memory capacity of a profile in megabytes, as its label states it
CapacityMB(hw) ==
    CASE hw = PiZero -> 512
      [] hw = Gateway -> 4096
      [] hw = Cloud -> 16384

\* --------------------------------------------------------- pure functions
\* "Zero" in hw_profile
HasZero(hw) == hw = PiZero

\* str.split()[0] of the two radio labels
FirstWord(label) ==
    CASE label = Managed -> "Python/Java"
      [] label = Native -> "C-Native"
      [] label = Normalized -> "Normalized"
      [] label = Denormalized -> "Denormalized"

LogMessage(rt, db) == [kernel |-> FirstWord(rt), db |-> FirstWord(db)]

Messages == {LogMessage(rt, db) : rt \in RuntimeTypes, db \in DbStrategies}

add_log_mut(log, message) ==
    LET l == Append(log, message)
    IN  IF Len(l) > LogCapacity THEN SubSeq(l, 1, Len(l) - 1) ELSE l

add_log(log, message) ==
    LET l == Append(log, message)
    IN  IF Len(l) > LogCapacity THEN Tail(l) ELSE l

\* base_latency in ns: 3300.0 * load_factor us or 4.5 * load_factor us
BaseLatency(db, lf) ==
    IF db = Normalized THEN (3300 * US * lf) \div 100
                       ELSE (4500 * lf) \div 100

\* total_latency_ms, in ns
TotalLatency(db, lf, overhead) == BaseLatency(db, lf) + overhead * US

MemUsageBase(rt) == IF rt = Managed THEN 60 ELSE 5

ResourceCount(i) == 10000 + i * 1000

RamUsage(rt, rc) ==
    IF rt = Native THEN MemUsageBase(rt) * MB + rc * 14
                   ELSE MemUsageBase(rt) * MB + rc * 80

IsCrashedInclusive(hw, ram) == HasZero(hw) /\ ram >= CrashThresholdMB * MB

IsCrashed(hw, ram) == HasZero(hw) /\ ram > CrashThresholdMB * MB

HighLatencyOneMs(lat) == lat > 1000 * US

HighLatency(lat) == lat > HighLatencyMs * 1000 * US

\* what a tick shows: the failure banner, the latency warning, or neither
Status(crashed, lat) ==
    IF crashed THEN "CRITICAL"
    ELSE IF HighLatency(lat) THEN "WARNING" ELSE "OPTIMAL"

\* ------------------------------------------------------------------ state
VARIABLES
    log_history, system_status,                       \* st.session_state
    widgets, requested, inputs,                       \* the browser side
    pc, hw_profile, db_strategy, runtime_type, run_sim,   \* the script
    i, resource_count, total_latency, ram_usage, is_crashed,
    ticks, appended,                                  \* per execution counts
    hist                                              \* every line ever logged

session == <<log_history, system_status>>
browser == <<widgets, requested, inputs>>
config == <<hw_profile, db_strategy, runtime_type, run_sim>>
locals == <<i, resource_count, total_latency, ram_usage, is_crashed>>
counts == <<ticks, appended>>
vars == <<session, browser, pc, config, locals, counts, hist>>

WidgetStates ==
    [hw : HwProfiles, db : DbStrategies, rt : RuntimeTypes, run : BOOLEAN]

Fresh(w) ==
    /\ log_history = InitialLog
    /\ system_status = "IDLE"
    /\ widgets = w
    /\ requested = FALSE
    /\ inputs = 0
    /\ pc = "start"
    /\ hw_profile = w.hw
    /\ db_strategy = w.db
    /\ runtime_type = w.rt
    /\ run_sim = FALSE
    /\ i = -1
    /\ resource_count = 0
    /\ total_latency = 0
    /\ ram_usage = 0
    /\ is_crashed = FALSE
    /\ ticks = 0
    /\ appended = 0
    /\ hist = InitialLog

\* a new session: the first execution of the script sees the widget defaults
Init == Fresh(DefaultWidgets)

\* ---------------------------------------------------------------- actions
\* lines 89-147 with every widget read: the script starts from the top
ScriptStartAlwaysOnline ==
    /\ pc = "start"
    /\ requested' = FALSE
    /\ hw_profile' = widgets.hw
    /\ db_strategy' = widgets.db
    /\ runtime_type' = widgets.rt
    /\ run_sim' = widgets.run
    /\ i' = -1
    /\ resource_count' = 0
    /\ total_latency' = 0
    /\ ram_usage' = 0
    /\ is_crashed' = FALSE
    /\ ticks' = 0
    /\ appended' = 0
    /\ system_status' = "ONLINE"
    /\ pc' = IF widgets.run THEN "head" ELSE "static"
    /\ UNCHANGED <<log_history, widgets, inputs, hist>>

ScriptStart ==
    /\ pc = "start"
    /\ requested' = FALSE
    /\ hw_profile' = widgets.hw
    /\ db_strategy' = widgets.db
    /\ runtime_type' = widgets.rt
    /\ run_sim' = widgets.run
    /\ i' = -1
    /\ resource_count' = 0
    /\ total_latency' = 0
    /\ ram_usage' = 0
    /\ is_crashed' = FALSE
    /\ ticks' = 0
    /\ appended' = 0
    /\ IF widgets.run
          THEN /\ system_status' = "ONLINE"
               /\ pc' = "head"
          ELSE /\ system_status' = system_status
               /\ pc' = "static"
    /\ UNCHANGED <<log_history, widgets, inputs, hist>>

\* lines 150-188: the loop header and the metrics of one tick
Tick ==
    /\ pc = "head"
    /\ IF i + 1 < NumTicks
          THEN \E lf \in LoadFactors :
               \E overhead \in RuntimeOverheads(runtime_type) :
                  LET rc == ResourceCount(i + 1)
                      ram == RamUsage(runtime_type, rc)
                      crashed == IsCrashed(hw_profile, ram)
                  IN  /\ i' = i + 1
                      /\ total_latency' = TotalLatency(db_strategy, lf, overhead)
                      /\ resource_count' = rc
                      /\ ram_usage' = ram
                      /\ is_crashed' = crashed
                      /\ system_status' =
                            IF crashed THEN "CRITICAL MEMORY" ELSE system_status
                      /\ ticks' = ticks + 1
                      /\ pc' = "render"
          ELSE /\ pc' = "done"
               /\ UNCHANGED <<locals, system_status, ticks>>
    /\ UNCHANGED <<log_history, browser, config, appended, hist>>

\* lines 191-217: metrics row, chart, failure banner and break, warning
RenderSkipLog ==
    /\ pc = "render"
    /\ ~requested
    /\ pc' = IF is_crashed THEN "done"
             ELSE IF HighLatency(total_latency) THEN "head" ELSE "log"
    /\ UNCHANGED <<session, browser, config, locals, counts, hist>>

Render ==
    /\ pc = "render"
    /\ ~requested
    /\ pc' = IF is_crashed THEN "done" ELSE "log"
    /\ UNCHANGED <<session, browser, config, locals, counts, hist>>

\* lines 221-222: one console line for the tick
AddLog ==
    /\ pc = "log"
    /\ log_history' = add_log(log_history, LogMessage(runtime_type, db_strategy))
    /\ appended' = appended + 1
    /\ pc' = "show"
    /\ UNCHANGED <<system_status, browser, config, locals, ticks, hist>>

\* lines 224-227: the console is drawn, then the refresh pause
ShowLog ==
    /\ pc = "show"
    /\ ~requested
    /\ pc' = "head"
    /\ UNCHANGED <<session, browser, config, locals, counts, hist>>

\* lines 229-280: the static view of a script whose switch is off
StaticViewIdle ==
    /\ pc = "static"
    /\ ~requested
    /\ pc' = "done"
    /\ system_status' = "IDLE"
    /\ UNCHANGED <<log_history, browser, config, locals, counts, hist>>

StaticView ==
    /\ pc = "static"
    /\ ~requested
    /\ pc' = "done"
    /\ UNCHANGED <<session, browser, config, locals, counts, hist>>

\* the viewer changes one widget; the browser asks for a rerun of the script
UserInput ==
    /\ inputs < MaxInputs
    /\ \E w \in WidgetStates :
          /\ Cardinality({f \in {"hw", "db", "rt", "run"} : w[f] # widgets[f]}) = 1
          /\ widgets' = w
    /\ requested' = TRUE
    /\ inputs' = inputs + 1
    /\ UNCHANGED <<session, pc, config, locals, counts, hist>>

\* a pending rerun stops the script at its next drawing call (or finds it
\* ended) and the script is executed again from the top
Rerun ==
    /\ requested
    /\ pc \in {"render", "show", "static", "done"}
    /\ pc' = "start"
    /\ UNCHANGED <<session, browser, config, locals, counts, hist>>

Next ==
    \/ ScriptStart
    \/ Tick
    \/ Render
    \/ AddLog
    \/ ShowLog
    \/ StaticView
    \/ UserInput
    \/ Rerun

Spec == Init /\ [][Next]_vars

\* ------------------------------------------- one uninterrupted execution
\* a session whose log and status are still untouched (static views change
\* neither) and whose switch has just been turned on, under any configuration
InitRun == \E w \in WidgetStates : w.run /\ Fresh(w)

NextRun ==
    \/ ScriptStart
    \/ Tick
    \/ Render
    \/ AddLog
    \/ ShowLog

SpecRun == InitRun /\ [][NextRun]_vars

\* ------------------------------------------------- add_log on its own
InitLog == Fresh(DefaultWidgets)

LogAppend ==
    /\ Len(hist) < Len(InitialLog) + MaxAppends
    /\ \E m \in Messages :
          /\ log_history' = add_log(log_history, m)
          /\ hist' = Append(hist, m)
    /\ UNCHANGED <<system_status, browser, pc, config, locals, counts>>

NextLog == LogAppend

SpecLog == InitLog /\ [][NextLog]_vars

\* --------------------------------------------- the crash logic on its own
\* memory usages in tenths of a megabyte around the two thresholds of the
\* 512 MB profile and around nine tenths of the two larger capacities
RamSamples ==
    {k * (MB \div 10) : k \in (4490 .. 4615) \cup {36863, 36864, 36865, 147455, 147456, 147457}}

InitClassify ==
    \E hw \in HwProfiles, ram \in RamSamples :
        /\ log_history = InitialLog
        /\ system_status = "ONLINE"
        /\ widgets = [DefaultWidgets EXCEPT !.hw = hw, !.run = TRUE]
        /\ requested = FALSE
        /\ inputs = 0
        /\ pc = "classify"
        /\ hw_profile = hw
        /\ db_strategy = Denormalized
        /\ runtime_type = Native
        /\ run_sim = TRUE
        /\ i = 0
        /\ resource_count = 0
        /\ total_latency = 0
        /\ ram_usage = ram
        /\ is_crashed = FALSE
        /\ ticks = 0
        /\ appended = 0
        /\ hist = InitialLog

\* lines 185-188 applied to the memory usage at hand
Classify ==
    /\ pc = "classify"
    /\ is_crashed' = IsCrashed(hw_profile, ram_usage)
    /\ system_status' =
          IF IsCrashed(hw_profile, ram_usage) THEN "CRITICAL MEMORY" ELSE system_status
    /\ pc' = "classified"
    /\ UNCHANGED <<log_history, browser, config, i, resource_count,
                   total_latency, ram_usage, counts, hist>>

NextClassify == Classify

SpecClassify == InitClassify /\ [][NextClassify]_vars

\* ----------------------------------------------------------------- claims
InTick == pc \in {"render", "log", "show"}

\* No reachable tick is classified CRITICAL: the memory usage of the last
\* tick of the heaviest configuration stays far below the crash threshold, so
\* the failure branch of the loop (the case C1 is about) is never entered.
NeverCrashed == ~is_crashed /\ system_status # "CRITICAL MEMORY"

LastOf(s, n) == SubSeq(s, Len(s) - n + 1, Len(s))

\* C3: the log never holds more than LogCapacity lines, and once the lines
\* logged so far exceed the capacity it holds exactly the LogCapacity most
\* recent ones, oldest first.
C3_LogBounded ==
    /\ Len(log_history) <= LogCapacity
    /\ Len(hist) <= LogCapacity => log_history = hist
    /\ Len(hist) > LogCapacity => log_history = LastOf(hist, LogCapacity)

C3_Witness ==
    /\ Len(hist) > Len(InitialLog) + LogCapacity
    /\ Len(log_history) = LogCapacity
    /\ log_history[1] # log_history[LogCapacity]

ManagedNormalizedZero ==
    /\ hw_profile = PiZero
    /\ runtime_type = Managed
    /\ db_strategy = Normalized
    /\ run_sim

\* C4: with the managed runtime, normalized storage and the 512 MB profile a
\* run always ends in the critical halt, never by running all its ticks.
C4_ManagedNormalizedHalts ==
    (ManagedNormalizedZero /\ pc = "done") =>
        (is_crashed /\ system_status = "CRITICAL MEMORY" /\ ticks <= NumTicks)

NativeDenormalizedZero ==
    /\ hw_profile = PiZero
    /\ runtime_type = Native
    /\ db_strategy = Denormalized
    /\ run_sim

\* C5: with the native runtime, denormalized storage and the 512 MB profile
\* every tick of the schedule is processed, resource_count grows strictly from
\* tick to tick, every tick is OPTIMAL and the run ends by exhaustion.
C5_NativeDenormalizedRun ==
    [][ NativeDenormalizedZero' =>
          /\ (ticks' = ticks + 1 => resource_count' > resource_count)
          /\ Status(is_crashed', total_latency') = "OPTIMAL"
          /\ system_status' = "ONLINE"
          /\ (pc' = "done" => ticks' = NumTicks /\ appended' = NumTicks) ]_vars

C5_Witness ==
    /\ NativeDenormalizedZero
    /\ pc = "done"
    /\ ticks = NumTicks
    /\ resource_count = ResourceCount(NumTicks - 1)

Tenths(k) == k * (MB \div 10)

C7_EndDistinguishable ==
    (pc = "done" /\ run_sim /\ ~is_crashed) => system_status # "ONLINE"

C9_DenormalizedNeverWarning ==
    (InTick /\ db_strategy = Denormalized) =>
        Status(is_crashed, total_latency) # "WARNING"

\* C10: system_status is always IDLE, ONLINE or CRITICAL MEMORY and never
\* returns to IDLE; an execution with the switch off and the end of the loop
\* leave it as it was; starting the simulation sets it to ONLINE, whatever it
\* was, and the loop starts over from step index 0.
C10_StatusNeverBackToIdle ==
    [][ /\ system_status' \in {"IDLE", "ONLINE", "CRITICAL MEMORY"}
        /\ (system_status # "IDLE" => system_status' # "IDLE")
        /\ (~run_sim' => system_status' = system_status)
        /\ (pc' = "done" /\ ~is_crashed' => system_status' = system_status)
        /\ (pc = "start" /\ pc' = "head" => system_status' = "ONLINE" /\ ticks' = 0)
        /\ (pc = "head" /\ ticks = 0 /\ pc' = "render" =>
                i' = 0 /\ resource_count' = ResourceCount(0)) ]_vars

C10_Witness ==
    /\ inputs >= 2
    /\ run_sim
    /\ pc = "render"
    /\ i = 0
    /\ system_status = "ONLINE"
    /\ log_history # InitialLog

====
